---- MODULE Spec2Model ----
(***************************************************************************)
(* Model of the Veo3AI segmentation-and-generation pipeline:               *)
(*   - OpenAIService.splitScript (the Segmenter), a pure function,         *)
(*     checked under SplitSpec;                                            *)
(*   - the POST /generate request: the /api timeout guard, the route       *)
(*     handler, OpenAIService.generateSegments, mapWithConcurrency,        *)
(*     generateSegment, safeParseJSON and repairJSONWithModel, checked     *)
(*     under Spec.                                                         *)
(***************************************************************************)
EXTENDS Integers, Sequences, FiniteSets, TLC

\* ------------------------------------------------------------------------
\* Bounds of the model
\* ------------------------------------------------------------------------
\* most sentences (terminated by . ! ?) in an input script
MaxSentences == 3
\* most whitespace-separated words in one sentence
MaxWords == 16
\* most words in the trailing text that has no terminal punctuation
MaxFrag == 1

\* ------------------------------------------------------------------------
\* splitScript: constants
\* ------------------------------------------------------------------------
minWordsFor6Seconds == 15
maxWordsFor8Seconds == 22
mergeCeiling == 30

\* ------------------------------------------------------------------------
\* Abstract strings.  A script is a run of sentences, each a positive
\* number of whitespace-separated words ending in terminal punctuation,
\* optionally followed by trailing words without terminal punctuation.
\* A string is the sequence of its units (sentence or trailing fragment)
\* and a flag telling whether it starts with whitespace.  Every unit keeps
\* its position in the input as its identity.
\* ------------------------------------------------------------------------
Scripts ==
  [sents : UNION {[1..k -> 1..MaxWords] : k \in 0..MaxSentences},
   frag  : 0..MaxFrag]

Str(units, lead) == [units |-> units, lead |-> lead]

\* the script as a string
ScriptString(s) ==
  Str([k \in 1..Len(s.sents) |-> [id |-> k, w |-> s.sents[k], term |-> TRUE]]
        \o (IF s.frag > 0
              THEN <<[id |-> Len(s.sents) + 1, w |-> s.frag, term |-> FALSE]>>
              ELSE <<>>),
      0)

RECURSIVE SumWords(_)
SumWords(units) ==
  IF units = <<>> THEN 0 ELSE Head(units).w + SumWords(Tail(units))

\* str.split(/\s+/).length : the empty string still splits into one (empty)
\* token, and leading whitespace adds an empty token in front
WordCount(str) ==
  IF SumWords(str.units) = 0 THEN 1 ELSE SumWords(str.units) + str.lead

\* str.trim()
Trim(str) == Str(str.units, 0)

\* a + ' ' + b
Concat(a, b) == Str(a.units \o b.units, a.lead)

\* str.match(/[^.!?]+[.!?]+/g) || [str] : one match per terminated
\* sentence; text after the last terminator matches nothing; a string with
\* no terminator at all is returned whole.  Matches after the first start
\* with the whitespace that followed the previous terminator.
MatchSentences(str) ==
  LET t == SelectSeq(str.units, LAMBDA u : u.term)
  IN  IF t = <<>>
        THEN <<str>>
        ELSE [k \in 1..Len(t) |-> Str(<<t[k]>>, IF k = 1 THEN str.lead ELSE 1)]

\* nextSentences.slice(1).join(' ')
RECURSIVE JoinAll(_)
JoinAll(strs) ==
  IF Len(strs) = 1 THEN strs[1]
  ELSE Concat(strs[1], JoinAll(Tail(strs)))

\* the inner while loop of the grouping pass as it would be if a sentence
\* that overruns the maximum were always deferred to the next segment
RECURSIVE AccumulateDefer(_, _, _, _)
AccumulateDefer(sentences, i, cur, cnt) ==
  IF cnt < minWordsFor6Seconds /\ i + 1 <= Len(sentences)
    THEN LET nextSentence == Trim(sentences[i + 1])
             nextWords    == WordCount(nextSentence)
         IN  IF cnt + nextWords > maxWordsFor8Seconds
               THEN [seg |-> cur, i |-> i]
               ELSE AccumulateDefer(sentences, i + 1,
                                    Concat(cur, nextSentence), cnt + nextWords)
    ELSE [seg |-> cur, i |-> i]

\* the inner while loop of the grouping pass: sentences[i] opened the
\* segment cur of cnt words; returns the closed segment and the index of
\* the last sentence it consumed
RECURSIVE Accumulate(_, _, _, _)
Accumulate(sentences, i, cur, cnt) ==
  IF cnt < minWordsFor6Seconds /\ i + 1 <= Len(sentences)
    THEN LET nextSentence == Trim(sentences[i + 1])
             nextWords    == WordCount(nextSentence)
         IN  IF cnt + nextWords > maxWordsFor8Seconds
               THEN IF cnt < minWordsFor6Seconds
                      THEN Accumulate(sentences, i + 1,
                                      Concat(cur, nextSentence), cnt + nextWords)
                      ELSE [seg |-> cur, i |-> i]
               ELSE Accumulate(sentences, i + 1,
                               Concat(cur, nextSentence), cnt + nextWords)
    ELSE [seg |-> cur, i |-> i]

\* the sentence-grouping pass (part_000 lines 260-291)
RECURSIVE GroupingPass(_, _, _)
GroupingPass(sentences, i, rawSegments) ==
  IF i > Len(sentences) THEN rawSegments
  ELSE LET sentence == Trim(sentences[i])
           a == Accumulate(sentences, i, sentence, WordCount(sentence))
       IN  GroupingPass(sentences, a.i + 1, Append(rawSegments, a.seg))

\* the rebalancing pass (part_000 lines 293-337)
RECURSIVE RebalancePass(_, _, _)
RebalancePass(rawSegments, i, finalSegments) ==
  IF i > Len(rawSegments) THEN finalSegments
  ELSE
    LET segment   == rawSegments[i]
        wordCount == WordCount(segment)
    IN
    IF wordCount < minWordsFor6Seconds /\ i < Len(rawSegments)
      THEN
        LET nextSegment   == rawSegments[i + 1]
            nextWords     == WordCount(nextSegment)
            nextSentences == MatchSentences(nextSegment)
            borrowedSentence == nextSentences[1]
            borrowedWords == WordCount(borrowedSentence)
            merged        == Concat(segment, rawSegments[i + 1])
            mergedWords   == WordCount(merged)
        IN
        IF /\ nextWords > minWordsFor6Seconds
           /\ Len(nextSentences) > 1
           /\ wordCount + borrowedWords <= maxWordsFor8Seconds
          THEN RebalancePass(
                 [rawSegments EXCEPT ![i + 1] = JoinAll(Tail(nextSentences))],
                 i + 1,
                 Append(finalSegments, Concat(segment, borrowedSentence)))
          ELSE IF mergedWords <= mergeCeiling
                 THEN RebalancePass(rawSegments, i + 2,
                                    Append(finalSegments, merged))
                 ELSE RebalancePass(rawSegments, i + 1,
                                    Append(finalSegments, segment))
      ELSE RebalancePass(rawSegments, i + 1, Append(finalSegments, segment))

rawSegmentsOf(s) == GroupingPass(MatchSentences(ScriptString(s)), 1, <<>>)

splitScript(s) == RebalancePass(rawSegmentsOf(s), 1, <<>>)

\* the identities of the units of a list of chunks, in output order
RECURSIVE UnitIds(_)
UnitIds(list) ==
  IF list = <<>> THEN <<>>
  ELSE [k \in 1..Len(list[1].units) |-> list[1].units[k].id]
         \o UnitIds(Tail(list))

\* ------------------------------------------------------------------------
\* Errors: message = label [ "_" idx ] tail
\* ------------------------------------------------------------------------
Err(label, idx, tail) == [label |-> label, idx |-> idx, tail |-> tail]
NoError == Err("", 0, "")
TimeoutError(label, idx) == Err(label, idx, "_timeout")
JsonRepairFailed == Err("json_repair_failed", 0, "")
ApiError == Err("rate_limit_exceeded", 0, "")
TemplateError == Err("ENOENT", 0, "")

\* ------------------------------------------------------------------------
\* JSON recovery.  A model reply is a sequence of tokens:
\*   "{" "}" ","   the JSON punctuation,
\*   "a" "b"       a well-formed "key": value member (two different ones),
\*   "f"           a code fence marker, with or without "json",
\*   "0"           a NUL or carriage-return character,
\*   "x"           prose outside the object.
\* ------------------------------------------------------------------------
Members == {"a", "b"}

\* JSON.parse succeeds: the text is one object, "{" member ("," member)* "}"
\* or "{" "}"
JsonParses(str) ==
  /\ Len(str) >= 2
  /\ str[1] = "{"
  /\ str[Len(str)] = "}"
  /\ LET inner == SubSeq(str, 2, Len(str) - 1)
     IN  \/ inner = <<>>
         \/ /\ Len(inner) % 2 = 1
            /\ \A k \in 1..Len(inner) :
                 IF k % 2 = 1 THEN inner[k] \in Members ELSE inner[k] = ","

\* the value JSON.parse returns: the members of the object
JsonValue(str) == SelectSeq(str, LAMBDA t : t \in Members)

IndexOf(str, t) ==
  IF \E k \in 1..Len(str) : str[k] = t
    THEN CHOOSE k \in 1..Len(str) : str[k] = t /\ \A j \in 1..(k - 1) : str[j] # t
    ELSE 0

LastIndexOf(str, t) ==
  IF \E k \in 1..Len(str) : str[k] = t
    THEN CHOOSE k \in 1..Len(str) :
           str[k] = t /\ \A j \in (k + 1)..Len(str) : str[j] # t
    ELSE 0

sliceToOuterBraces(str) ==
  LET first == IndexOf(str, "{")
      last  == LastIndexOf(str, "}")
  IN  IF first = 0 \/ last = 0 \/ last <= first THEN str
      ELSE SubSeq(str, first, last)

\* s.replace(/,\s*([}\]])/g, '$1') : drop a comma that is directly followed
\* by a closing brace
RECURSIVE DropTrailingCommas(_)
DropTrailingCommas(str) ==
  IF str = <<>> THEN <<>>
  ELSE IF Len(str) >= 2 /\ str[1] = "," /\ str[2] = "}"
         THEN DropTrailingCommas(Tail(str))
         ELSE <<Head(str)>> \o DropTrailingCommas(Tail(str))

basicJsonCleanup(str) ==
  LET s1 == SelectSeq(str, LAMBDA t : t # "0")
      s2 == SelectSeq(s1, LAMBDA t : t # "f")
      s3 == DropTrailingCommas(s2)
  IN  sliceToOuterBraces(s3)

Null == <<"null">>

\* safeParseJSON as it would be with the direct parse alone
safeParseJSONDirectOnly(raw) ==
  IF JsonParses(raw)
    THEN [ok |-> TRUE, value |-> JsonValue(raw), tier |-> 1]
    ELSE [ok |-> FALSE, value |-> Null, tier |-> 0]

\* tier 1: direct parse; tier 2: parse after basicJsonCleanup
safeParseJSON(raw) ==
  IF JsonParses(raw)
    THEN [ok |-> TRUE, value |-> JsonValue(raw), tier |-> 1]
    ELSE LET cleaned == basicJsonCleanup(raw)
         IN  IF JsonParses(cleaned)
               THEN [ok |-> TRUE, value |-> JsonValue(cleaned), tier |-> 2]
               ELSE [ok |-> FALSE, value |-> Null, tier |-> 0]

Ok(v) == [ok |-> TRUE, value |-> v, err |-> NoError]
Fail(e) == [ok |-> FALSE, value |-> Null, err |-> e]

\* the end of repairJSONWithModel as it would be if the repair reply were
\* given to JSON.parse directly
repairJSONWithModelDirect(repairedRaw) ==
  LET parsed == safeParseJSONDirectOnly(repairedRaw)
  IN  IF parsed.ok THEN Ok(parsed.value) ELSE Fail(JsonRepairFailed)

\* the end of repairJSONWithModel: the repair reply goes through
\* safeParseJSON and a failure throws json_repair_failed
repairJSONWithModel(repairedRaw) ==
  LET parsed == safeParseJSON(repairedRaw)
  IN  IF parsed.ok THEN Ok(parsed.value) ELSE Fail(JsonRepairFailed)

\* the replies the upstream model gives in this model: a valid object, an
\* object in code fences with a trailing comma, prose and a NUL around an
\* object, and an object with its closing brace missing
ReplyValid    == <<"{", "a", "}">>
ReplyFenced   == <<"f", "{", "b", ",", "}", "f">>
ReplyUnclosed == <<"{", "a">>
Replies == {ReplyValid, ReplyFenced, ReplyUnclosed}

\* ------------------------------------------------------------------------
\* Bounds and constants of the request pipeline
\* ------------------------------------------------------------------------
\* most chunks splitScript returns for the script of a request
MaxSegs == 3

SEGMENT_CONCURRENCY == 2
sequentialThreshold == 8

\* the values of the request body's optional knobs that the model draws:
\* sequential is absent, true or false; maxSegments is absent (0, which the
\* code treats the same as absent), a positive cap or a negative number
SequentialChoices == {"undefined", "true", "false"}
MaxSegmentsChoices == {0, 2, -1}

\* the label of the timers of call i: call 0 is the base-description
\* call, call i >= 1 generates segment i
CallLabel(i) == IF i = 0 THEN "openai_base" ELSE "openai_segment"

\* ------------------------------------------------------------------------
\* State
\* ------------------------------------------------------------------------
VARIABLES
  script,     \* the input of splitScript
  chunks,     \* the list splitScript returned
  splitDone,  \* splitScript has returned
  req,        \* the POST /generate request
  run,        \* OpenAIService.generateSegments: position and locals
  map,        \* mapWithConcurrency: index, active, results, promise state
  calls,      \* the upstream calls: 0 base descriptions, i segment i
  res,        \* the HTTP response object
  timer,      \* the route-deadline timer of the /api guard
  hist,       \* history: dispatch order, completion order, slot writes,
              \* whether a worker returned after the batch was rejected
  rt,         \* one request seen from its route: plan, call counts, answer
  cv,         \* the continuity-mode pipeline: calls, timers, voice profile
  en,         \* one call of getEnergyLevel: arguments and returned level
  cx          \* two POST /generate bodies and the segment context of each

splitVars == <<script, chunks, splitDone>>

pipeVars == <<req, run, map, calls, res, timer, hist>>

routeVars == <<rt>>

contVars == <<cv>>

vars == <<script, chunks, splitDone, req, run, map, calls, res, timer, hist,
         rt, cv, en, cx>>

Empty == <<"empty">>
NoRaw == <<"none">>

IdleCall ==
  [phase |-> "idle", raw |-> NoRaw, value |-> Null, err |-> NoError,
   attempts |-> 0, repairs |-> 0, repairRaw |-> NoRaw, prev |-> Null,
   out |-> "none", outErr |-> NoError]

NoRequest ==
  [recv |-> FALSE, valid |-> FALSE, nChunks |-> 0, maxSegments |-> 0,
   sequential |-> "undefined"]

PipeInit ==
  /\ req = NoRequest
  /\ run = [pc |-> "none", n |-> 0, seq |-> FALSE, segments |-> <<>>,
            base |-> Null, error |-> NoError]
  /\ map = [index |-> 0, active |-> 0, state |-> "none",
            results |-> [i \in 1..MaxSegs |-> Empty]]
  /\ calls = [i \in 0..MaxSegs |-> IdleCall]
  /\ res = [headersSent |-> FALSE, writes |-> 0, status |-> 0,
            body |-> "none", segments |-> <<>>]
  /\ timer = "none"
  /\ hist = [dispatched |-> <<>>, completed |-> <<>>,
             slotWrites |-> [i \in 1..MaxSegs |-> 0],
             late |-> FALSE]

\* ------------------------------------------------------------------------
\* generateSegments: the synchronous steps
\* ------------------------------------------------------------------------
\* scriptSegments.slice(0, +params.maxSegments).length, taken only when
\* params.maxSegments is truthy and finite
CappedLength(nChunks, maxSegments) ==
  IF maxSegments = 0 THEN nChunks
  ELSE IF maxSegments > 0
         THEN (IF maxSegments < nChunks THEN maxSegments ELSE nChunks)
         ELSE (IF nChunks + maxSegments > 0 THEN nChunks + maxSegments ELSE 0)

autoSequential(sequential, n) ==
  IF sequential = "undefined" THEN n >= sequentialThreshold
  ELSE sequential = "true"

\* effectiveConcurrency as it would be with one worker per segment
effectiveConcurrencyPerSegment(seq) == IF seq THEN 1 ELSE MaxSegs

effectiveConcurrency(seq) == IF seq THEN 1 ELSE SEGMENT_CONCURRENCY

\* the previousSegment of the sequential loop as it would be if the loop
\* passed null the way the concurrent worker does
previousSegmentNull(segments, i) == Null

\* const prev = i > 0 ? segments[i - 1] : null   (i counts from 1 here)
previousSegment(segments, i) == IF i > 1 THEN segments[i - 1] ELSE Null

\* ------------------------------------------------------------------------
\* The steps below work on a record w = [run, map, calls, hist] so that one
\* I/O event can run the whole chain of promise reactions it triggers.
\* ------------------------------------------------------------------------
World == [run |-> run, map |-> map, calls |-> calls, hist |-> hist]

\* makeSegment(scriptPart, i - 1, prev): generateSegment issues its
\* upstream call and both timers are set
StartCall(w, i, prev) ==
  [w EXCEPT !.calls[i] = [@ EXCEPT !.phase = "upstream",
                                   !.attempts = @ + 1,
                                   !.prev = prev,
                                   !.out = "pending"]]

\* resolve(results) of mapWithConcurrency; generateSegments then returns
Resolve(w) ==
  IF w.map.state = "pending"
    THEN [w EXCEPT !.map.state = "resolved",
                   !.run.pc = "resolved",
                   !.run.segments = [i \in 1..w.run.n |-> w.map.results[i]]]
    ELSE w

\* a .catch of mapWithConcurrency that swallows the worker's error
RejectSwallowed(w, e) == w

\* reject(e) of mapWithConcurrency; generateSegments then throws e
Reject(w, e) ==
  IF w.map.state = "pending"
    THEN [w EXCEPT !.map.state = "rejected",
                   !.run.pc = "rejected",
                   !.run.error = e]
    ELSE w

\* next() as it would be if a rejected batch stopped dispatching
nextUnlessRejected(w) ==
  IF w.map.index >= w.run.n /\ w.map.active = 0
    THEN Resolve(w)
    ELSE
      LET room == effectiveConcurrency(w.run.seq) - w.map.active
          left == IF w.map.state = "rejected" THEN 0
                  ELSE w.run.n - w.map.index
          k    == IF room < left THEN (IF room > 0 THEN room ELSE 0) ELSE left
          new  == (w.map.index + 1)..(w.map.index + k)
      IN  [w EXCEPT
             !.map.index = @ + k,
             !.map.active = @ + k,
             !.calls = [i \in 0..MaxSegs |->
                          IF i \in new
                            THEN [@[i] EXCEPT !.phase = "upstream",
                                              !.attempts = @ + 1,
                                              !.prev = Null,
                                              !.out = "pending"]
                            ELSE @[i]],
             !.hist.dispatched =
                @ \o [j \in 1..k |-> w.map.index + j]]

\* next() of mapWithConcurrency
next(w) ==
  IF w.map.index >= w.run.n /\ w.map.active = 0
    THEN Resolve(w)
    ELSE
      LET room == effectiveConcurrency(w.run.seq) - w.map.active
          left == w.run.n - w.map.index
          k    == IF room < left THEN (IF room > 0 THEN room ELSE 0) ELSE left
          new  == (w.map.index + 1)..(w.map.index + k)
      IN  [w EXCEPT
             !.map.index = @ + k,
             !.map.active = @ + k,
             !.calls = [i \in 0..MaxSegs |->
                          IF i \in new
                            THEN [@[i] EXCEPT !.phase = "upstream",
                                              !.attempts = @ + 1,
                                              !.prev = Null,
                                              !.out = "pending"]
                            ELSE @[i]],
             !.hist.dispatched =
                @ \o [j \in 1..k |-> w.map.index + j]]

\* results written on completion instead of by index
StoreResultAppend(results, i, r) ==
  LET free == {j \in 1..MaxSegs : results[j] = Empty}
      slot == IF free = {} THEN i
              ELSE CHOOSE j \in free : \A h \in free : j <= h
  IN  [results EXCEPT ![slot] = r]

\* results[i] = r
StoreResult(results, i, r) == [results EXCEPT ![i] = r]

\* the .then of a worker as it would be without its call of next()
WorkerThenWithoutNext(w, i, r) ==
  [w EXCEPT !.map.results = StoreResult(@, i, r),
            !.map.active = @ - 1,
            !.hist.slotWrites[i] = @ + 1,
            !.hist.completed = Append(@, i),
            !.hist.late = @ \/ w.map.state = "rejected"]

\* the .then of a worker of mapWithConcurrency
WorkerThen(w, i, r) ==
  next([w EXCEPT !.map.results = StoreResult(@, i, r),
                 !.map.active = @ - 1,
                 !.hist.slotWrites[i] = @ + 1,
                 !.hist.completed = Append(@, i),
                 !.hist.late = @ \/ w.map.state = "rejected"])

\* the sequential loop after makeSegment i failed, as it would be if the
\* loop skipped the failed segment and went on
SeqRejectedSkip(w, i, e) ==
  IF i < w.run.n
    THEN StartCall(w, i + 1, previousSegment(w.run.segments, i + 1))
    ELSE [w EXCEPT !.run.pc = "resolved"]

\* the sequential loop after makeSegment i threw: generateSegments throws
SeqRejected(w, i, e) ==
  [w EXCEPT !.run.pc = "rejected", !.run.error = e]

\* the sequential loop after makeSegment i returned v
SeqResolved(w, i, v) ==
  LET w1 == [w EXCEPT !.run.segments = Append(@, v)]
  IN  IF i < w.run.n
        THEN StartCall(w1, i + 1, previousSegment(w1.run.segments, i + 1))
        ELSE [w1 EXCEPT !.run.pc = "resolved"]

\* step 3 of generateSegments, entered when the base descriptions are there
StartSegments(w, baseDescriptions) ==
  LET w1 == [w EXCEPT !.run.pc = "segments", !.run.base = baseDescriptions]
  IN  IF w.run.seq
        THEN IF w.run.n >= 1
               THEN StartCall(w1, 1, previousSegment(w1.run.segments, 1))
               ELSE [w1 EXCEPT !.run.pc = "resolved"]
        ELSE next([w1 EXCEPT !.map.state = "pending"])

\* the promise of withTimeout(generateBaseDescriptions | generateSegment)
\* settles: out = [ok, value, err]
OuterSettled(w, i, out) ==
  LET w1 == [w EXCEPT !.calls[i].out =
                         IF out.ok THEN "resolved" ELSE "rejected",
                      !.calls[i].outErr = out.err]
  IN  IF i = 0
        THEN IF out.ok THEN StartSegments(w1, out.value)
             ELSE [w1 EXCEPT !.run.pc = "rejected", !.run.error = out.err]
        ELSE IF w.run.seq
               THEN IF out.ok THEN SeqResolved(w1, i, out.value)
                    ELSE SeqRejected(w1, i, out.err)
               ELSE IF out.ok THEN WorkerThen(w1, i, out.value)
                    ELSE Reject(w1, out.err)

\* generateBaseDescriptions / generateSegment settles; the withTimeout
\* around it follows unless its own timer has already rejected it
InnerSettled(w, i, out) ==
  LET w1 == [w EXCEPT !.calls[i].phase = IF out.ok THEN "ok" ELSE "err",
                      !.calls[i].value = out.value,
                      !.calls[i].err = out.err]
  IN  IF w.calls[i].out = "pending" THEN OuterSettled(w1, i, out) ELSE w1

\* ------------------------------------------------------------------------
\* The response
\* ------------------------------------------------------------------------
statusFromError(e) ==
  IF e.tail = "_timeout" \/ e.label = "route_timeout" THEN 504
  ELSE IF e.label = "json_repair_failed" THEN 502
  ELSE 500

Written(r, status, body, segments) ==
  [headersSent |-> TRUE, writes |-> r.writes + 1, status |-> status,
   body |-> body, segments |-> segments]

\* a responder that writes without looking at res.headersSent
RespondUnguarded(r, status, body, segments) ==
  Written(r, status, body, segments)

\* if (res.headersSent) return; res.status(status).json(...)
Respond(r, status, body, segments) ==
  IF r.headersSent THEN r ELSE Written(r, status, body, segments)

\* the rest of the POST /generate handler, run when generateSegments has
\* returned or thrown in this step
HandlerCompletes(w) ==
  IF run.pc \in {"template", "base", "segments"}
    THEN IF w.run.pc = "resolved"
           THEN Respond(res, 200, "segments", w.run.segments)
           ELSE IF w.run.pc = "rejected"
                  THEN Respond(res, statusFromError(w.run.error), "error", <<>>)
                  ELSE res
    ELSE res

\* the state after the promise reactions of one I/O event have run
Commit(w) ==
  /\ run' = w.run
  /\ map' = w.map
  /\ calls' = w.calls
  /\ hist' = w.hist
  /\ res' = HandlerCompletes(w)
  /\ UNCHANGED <<req, timer, splitVars, rt, cv, en, cx>>

\* ------------------------------------------------------------------------
\* Actions of the request pipeline: one per I/O event
\* ------------------------------------------------------------------------
\* a POST /generate arrives (continuationMode false): the /api guard arms
\* the route-deadline timer and the handler runs up to its first await
Request(valid, nChunks, maxSegments, sequential) ==
  /\ ~req.recv
  /\ req' = [recv |-> TRUE, valid |-> valid, nChunks |-> nChunks,
             maxSegments |-> maxSegments, sequential |-> sequential]
  /\ timer' = "armed"
  /\ IF valid
       THEN /\ run' = [run EXCEPT !.pc = "template"]
            /\ UNCHANGED res
       ELSE /\ run' = [run EXCEPT !.pc = "invalid"]
            /\ res' = Written(res, 400, "validation", <<>>)
  /\ UNCHANGED <<map, calls, hist, splitVars, rt, cv, en, cx>>

\* fs.readFile of the template returns: split, cap, choose the mode and
\* issue the base-description call
TemplateLoaded ==
  /\ run.pc = "template"
  /\ LET n  == CappedLength(req.nChunks, req.maxSegments)
         w1 == [World EXCEPT !.run.pc = "base",
                             !.run.n = n,
                             !.run.seq = autoSequential(req.sequential, n)]
     IN  Commit(StartCall(w1, 0, Null))

\* fs.readFile of the template fails: generateSegments throws
TemplateFails ==
  /\ run.pc = "template"
  /\ Commit([World EXCEPT !.run.pc = "rejected", !.run.error = TemplateError])

\* the upstream model answers call i with the text r
UpstreamReply(i, r) ==
  /\ calls[i].phase = "upstream"
  /\ LET parsed == safeParseJSON(r)
     IN  IF parsed.ok
           THEN Commit(InnerSettled(
                  [World EXCEPT !.calls[i].raw = r], i, Ok(parsed.value)))
           ELSE \* repairJSONWithModel issues the repair call
                Commit([World EXCEPT !.calls[i].raw = r,
                                     !.calls[i].phase = "repair",
                                     !.calls[i].repairs = @ + 1])

\* the upstream call of call i fails (rate limit)
UpstreamError(i) ==
  /\ calls[i].phase = "upstream"
  /\ Commit(InnerSettled(World, i, Fail(ApiError)))

\* the timer of the withTimeout around the upstream call of call i fires
UpstreamTimeout(i) ==
  /\ calls[i].phase = "upstream"
  /\ Commit(InnerSettled(World, i, Fail(TimeoutError(CallLabel(i), i))))

\* the upstream model answers the repair call of call i with the text r
RepairReply(i, r) ==
  /\ calls[i].phase = "repair"
  /\ Commit(InnerSettled([World EXCEPT !.calls[i].repairRaw = r], i,
                          repairJSONWithModel(r)))

\* the repair call of call i fails (rate limit)
RepairError(i) ==
  /\ calls[i].phase = "repair"
  /\ Commit(InnerSettled(World, i, Fail(ApiError)))

\* the timer of the withTimeout around the repair call of call i fires
RepairTimeout(i) ==
  /\ calls[i].phase = "repair"
  /\ Commit(InnerSettled(World, i, Fail(TimeoutError("openai_json_repair", 0))))

\* the timer of the withTimeout around generateBaseDescriptions or
\* generateSegment fires.  It is set right after the timer around the
\* upstream call, with the same delay, so it can only win while the repair
\* call is in flight; the repair call is not cancelled.
OuterTimeout(i) ==
  /\ calls[i].phase = "repair"
  /\ calls[i].out = "pending"
  /\ Commit(OuterSettled(World, i, Fail(TimeoutError(CallLabel(i), i))))

\* the route-deadline callback as it would be if it also abandoned the run
RouteTimeoutCancels ==
  /\ timer = "armed"
  /\ timer' = "fired"
  /\ res' = Respond(res, 504, "route_timeout", <<>>)
  /\ run' = IF run.pc \in {"template", "base", "segments"}
              THEN [run EXCEPT !.pc = "cancelled"]
              ELSE run
  /\ UNCHANGED <<req, map, calls, hist, splitVars, rt, cv, en, cx>>

\* the route-deadline callback as it would be if it only logged
RouteTimeoutSilent ==
  /\ timer = "armed"
  /\ timer' = "fired"
  /\ UNCHANGED <<req, run, map, calls, res, hist, splitVars, rt, cv, en, cx>>

\* the route-deadline timer fires
RouteTimeout ==
  /\ timer = "armed"
  /\ timer' = "fired"
  /\ res' = Respond(res, 504, "route_timeout", <<>>)
  /\ UNCHANGED <<req, run, map, calls, hist, splitVars, rt, cv, en, cx>>

\* the response emits finish or close: clearTimeout(timer)
ResFinish ==
  /\ timer = "armed"
  /\ res.headersSent
  /\ timer' = "cleared"
  /\ UNCHANGED <<req, run, map, calls, res, hist, splitVars, rt, cv, en, cx>>

Next ==
  \/ \E valid \in BOOLEAN, nChunks \in 1..MaxSegs,
        maxSegments \in MaxSegmentsChoices, sequential \in SequentialChoices :
       Request(valid, nChunks, maxSegments, sequential)
  \/ TemplateLoaded
  \/ TemplateFails
  \/ \E i \in 0..MaxSegs, r \in Replies : UpstreamReply(i, r)
  \/ \E i \in 0..MaxSegs : UpstreamError(i)
  \/ \E i \in 0..MaxSegs : UpstreamTimeout(i)
  \/ \E i \in 0..MaxSegs, r \in Replies : RepairReply(i, r)
  \/ \E i \in 0..MaxSegs : RepairError(i)
  \/ \E i \in 0..MaxSegs : RepairTimeout(i)
  \/ \E i \in 0..MaxSegs : OuterTimeout(i)
  \/ RouteTimeout
  \/ ResFinish

\* getEnergyLevel has not been called
EnergyIdle ==
  [arc |-> "none", segmentNumber |-> 0, totalSegments |-> 0, done |-> FALSE,
   level |-> [finite |-> TRUE, pct |-> 0, stage |-> "none"]]

\* no pair of requests is being compared
ContextIdle == [pc |-> "idle"]

\* no request has reached a route yet
RouteIdle ==
  [pc |-> "idle", route |-> "none", service |-> "none",
   continuationMode |-> FALSE,
   body |-> [maxSegments |-> 0, sequential |-> "undefined",
             settingMode |-> "single", locations |-> <<>>],
   nChunks |-> 0, n |-> 0, seq |-> FALSE, concurrency |-> 0,
   locations |-> <<>>, callerLocations |-> <<>>,
   baseCalls |-> 0, segmentBase |-> 0, voiceCalls |-> 0, issued |-> 0,
   completed |-> 0,
   result |-> [segments |-> 0, totalSegments |-> 0, estimatedDuration |-> 0],
   status |-> 0,
   out |-> [segments |-> 0, totalSegments |-> 0, estimatedDuration |-> 0],
   error |-> NoError]

\* generateSegmentsWithVoiceProfile has not been called yet
ContIdle ==
  [pc |-> "idle", service |-> "none", n |-> 0, calls |-> <<>>,
   base |-> Null, segments |-> <<>>, voiceProfile |-> Null,
   error |-> NoError]

Init ==
  /\ script = [sents |-> <<>>, frag |-> 0]
  /\ chunks = <<>>
  /\ splitDone = FALSE
  /\ PipeInit
  /\ rt = RouteIdle
  /\ cv = ContIdle
  /\ en = EnergyIdle
  /\ cx = ContextIdle

Spec == Init /\ [][Next]_vars

\* ------------------------------------------------------------------------
\* Properties of the request pipeline (Spec)
\* ------------------------------------------------------------------------
\* C2: mapWithConcurrency dispatches the items in increasing index order,
\* each index once; every result slot is written at most once; and when
\* the promise resolves, whatever the completion order was, slot i holds
\* what the worker of item i returned.
C2_OrderPreservation ==
  /\ hist.dispatched = [k \in 1..Len(hist.dispatched) |-> k]
  /\ \A i \in 1..MaxSegs : hist.slotWrites[i] <= 1
  /\ map.state = "resolved" =>
       \A i \in 1..run.n :
         /\ hist.slotWrites[i] = 1
         /\ calls[i].phase = "ok"
         /\ run.segments[i] = calls[i].value

\* a resolved concurrent run whose second worker finished first, with a
\* different result than the first
C2_Witness ==
  /\ map.state = "resolved"
  /\ run.n >= 2
  /\ hist.completed[1] = 2
  /\ run.segments[1] # run.segments[2]

\* C3: in sequential mode the call for segment i > 1 is started only once
\* the call for segment i-1 has returned, and its previousSegment is the
\* parsed result of segment i-1; the first segment gets null.
C3_ContinuityChain ==
  run.seq =>
    \A i \in 1..MaxSegs :
      calls[i].phase # "idle" =>
        IF i = 1
          THEN calls[i].prev = Null
          ELSE /\ calls[i - 1].phase = "ok"
               /\ calls[i - 1].out = "resolved"
               /\ calls[i].prev = calls[i - 1].value

\* a sequential run that reached its third segment with two different
\* predecessors
C3_Witness ==
  /\ run.seq
  /\ calls[3].phase = "ok"
  /\ calls[2].prev = <<"a">>
  /\ calls[3].prev = <<"b">>

\* C4: at most one response is written per request whatever the order of
\* the route-deadline timer and the handler's completion: once the headers
\* are sent the response never changes again.
C4_ExactlyOnceWrite ==
  [][(res.headersSent => res' = res) /\ res'.writes <= 1]_vars

\* the deadline answered first and the handler's success came later
C4_Witness ==
  /\ run.pc = "resolved"
  /\ timer = "fired"
  /\ res.body = "route_timeout"
  /\ res.writes = 1

\* C5: in sequential mode, once the generation of segment i has failed, no
\* call is issued for any later segment, the run rejects with that error
\* and the response carries no segments.
C5_SequentialAbort ==
  run.seq =>
    \A i \in 1..MaxSegs :
      calls[i].out = "rejected" =>
        /\ \A j \in (i + 1)..MaxSegs : calls[j].attempts = 0
        /\ run.pc = "rejected"
        /\ run.error = calls[i].outErr
        /\ res.headersSent
        /\ res.body # "segments"

\* a sequential run of three segments whose second segment failed and was
\* answered with the error
C5_Witness ==
  /\ run.seq
  /\ run.n >= 3
  /\ calls[1].out = "resolved"
  /\ calls[2].out = "rejected"
  /\ res.body = "error"

IsTransient(i) ==
  /\ calls[i].phase = "err"
  /\ calls[i].repairs = 0
  /\ calls[i].err \in {ApiError, TimeoutError(CallLabel(i), i)}

\* C6: an upstream call that fails with a transient error on every attempt
\* has been attempted exactly 1 + retryBound times when the error surfaces
\* (retry bound 2: three attempts).
C6_RetryBound ==
  \A i \in 0..MaxSegs : IsTransient(i) => calls[i].attempts = 1 + 2

\* C7: a segment call does not fail on an upstream timeout before its
\* third attempt, so two timeouts followed by a success end in success
\* after exactly three attempts.
C7_RetryRecovers ==
  \A i \in 1..MaxSegs :
    calls[i].attempts < 3 =>
      ~(calls[i].phase = "err" /\ calls[i].err = TimeoutError(CallLabel(i), i))

\* the replies that fail the direct parse and the cleanup parse
UnparsableReplies ==
  {r \in Replies : ~JsonParses(r) /\ ~JsonParses(basicJsonCleanup(r))}

FailsBothTiers(raw) ==
  IF raw \in Replies THEN raw \in UnparsableReplies
  ELSE ~JsonParses(raw) /\ ~JsonParses(basicJsonCleanup(raw))

\* C8: the repair call is issued only for a reply that failed the direct
\* parse and the cleanup parse; a reply that parses at tier 1 or tier 2
\* causes no repair call.
C8_TierOrdering ==
  \A i \in 0..MaxSegs :
    /\ calls[i].repairs > 0 =>
         calls[i].raw # NoRaw /\ FailsBothTiers(calls[i].raw)
    /\ (calls[i].raw # NoRaw /\ ~FailsBothTiers(calls[i].raw)) =>
         calls[i].repairs = 0 /\ calls[i].phase = "ok"

\* one call answered in code fences parsed without repair while another
\* call needed the repair
C8_Witness ==
  \E i, j \in 1..MaxSegs :
    /\ calls[i].raw = ReplyFenced
    /\ calls[i].repairs = 0
    /\ calls[i].phase = "ok"
    /\ calls[j].repairs = 1

\* C9: a reply that fails tiers 1 and 2 triggers exactly one repair call;
\* the repair reply goes through tiers 1-2 only and is never itself sent
\* for repair; if it does not parse, the generation call fails with
\* json_repair_failed.
C9_SingleShotRepair ==
  \A i \in 0..MaxSegs :
    /\ calls[i].repairs <= 1
    /\ (calls[i].raw # NoRaw /\ FailsBothTiers(calls[i].raw)) =>
         calls[i].repairs = 1
    /\ calls[i].repairRaw # NoRaw =>
         IF FailsBothTiers(calls[i].repairRaw)
           THEN calls[i].phase = "err" /\ calls[i].err = JsonRepairFailed
           ELSE /\ calls[i].phase = "ok"
                /\ calls[i].value = JsonValue(basicJsonCleanup(calls[i].repairRaw))

\* one call whose repair reply was itself unparsable and one whose repair
\* reply parsed only after cleanup
C9_Witness ==
  \E i, j \in 1..MaxSegs :
    /\ calls[i].repairRaw = ReplyUnclosed
    /\ calls[i].repairs = 1
    /\ calls[i].err = JsonRepairFailed
    /\ calls[j].repairRaw = ReplyFenced
    /\ calls[j].phase = "ok"

\* ------------------------------------------------------------------------
\* SplitSpec: splitScript applied to every bounded script
\* ------------------------------------------------------------------------
SplitInit ==
  /\ script \in Scripts
  /\ chunks = <<>>
  /\ splitDone = FALSE
  /\ PipeInit
  /\ rt = RouteIdle
  /\ cv = ContIdle
  /\ en = EnergyIdle
  /\ cx = ContextIdle

SplitScript ==
  /\ ~splitDone
  /\ chunks' = splitScript(script)
  /\ splitDone' = TRUE
  /\ UNCHANGED <<script, pipeVars, rt, cv, en, cx>>

SplitNext == SplitScript

SplitSpec == SplitInit /\ [][SplitNext]_vars

\* ------------------------------------------------------------------------
\* Properties of splitScript (SplitSpec)
\* ------------------------------------------------------------------------
NumUnits(s) == Len(s.sents) + (IF s.frag > 0 THEN 1 ELSE 0)

\* C1: the chunks returned by splitScript, concatenated in order, contain
\* every sentence of the input and its trailing unterminated fragment
\* exactly once, in input order.
C1_SegmentationCoverage ==
  splitDone => UnitIds(chunks) = [k \in 1..NumUnits(script) |-> k]

\* C10: every chunk returned by splitScript except possibly the last one
\* has at least 15 words.
C10_MinimumFloor ==
  splitDone =>
    \A k \in 1..(Len(chunks) - 1) : WordCount(chunks[k]) >= minWordsFor6Seconds

\* a split with a non-final chunk that only reached the floor by taking a
\* sentence that pushed it over the 22-word maximum
C10_Witness ==
  /\ splitDone
  /\ Len(chunks) >= 2
  /\ WordCount(chunks[1]) > maxWordsFor8Seconds
  /\ Len(chunks[1].units) >= 2

\* a script of exactly three terminated sentences totalling 18 words
IsScenarioA(s) ==
  /\ Len(s.sents) = 3
  /\ s.frag = 0
  /\ s.sents[1] + s.sents[2] + s.sents[3] = 18

\* C11: every script of exactly 3 sentences whose word counts total 18 is
\* returned by splitScript as exactly 1 chunk.
C11_ScenarioA ==
  (splitDone /\ IsScenarioA(script)) => Len(chunks) = 1

\* ------------------------------------------------------------------------
\* The generation routes and the service variants behind them.  A request is
\* followed from the route handler through the service's planning steps
\* (split, cap, mode, locations) and its upstream calls to the answer.  The
\* script is given by the number of chunks splitScript returns for it.
\* ------------------------------------------------------------------------
MaxChunks == 9

MaxLocs == 2

\* "generate"   POST /generate                  (routes/generate.js)
\* "generate_b" POST /generate, its variant with the continuation loop in
\*              the handler                     (services/openaiService.js)
\* "plus_a"     POST /generate-plus, knobs passed to the service
\* "plus_b"     POST /generate-plus, cap applied to the finished result
\* "continuation" POST /generate-continuation, which generates base
\*              descriptions itself and then calls generateSegments
Routes == {"generate", "generate_b", "plus_a", "plus_b", "continuation"}

\* "current" the service with cap, mode selection and JSON repair
\* "older"   the service without them
Services == {"current", "older"}

SettingModes == {"single", "home-tour"}

Room == <<"room", 0>>

LivingRoom == <<"living room", 0>>

\* the k-th location of the caller's list
Loc(k) == <<"loc", k>>

\* the locations arrays a request body can carry
LocationLists == {[k \in 1..len |-> Loc(k)] : len \in 0..MaxLocs}

\* the fields of req.body that shape the plan
Bodies ==
  [maxSegments : MaxSegmentsChoices, sequential : SequentialChoices,
   settingMode : SettingModes, locations : LocationLists]

Min(a, b) == IF a < b THEN a ELSE b

Max(a, b) == IF a > b THEN a ELSE b

\* which pipeline the handler runs
\*   "standard"   OpenAIService.generateSegments
\*   "voice"      OpenAIService.generateSegmentsWithVoiceProfile
\*   "route_loop" the handler's own loop over generateContinuationStyleSegment
Flow(route, continuationMode) ==
  IF ~continuationMode THEN "standard"
  ELSE IF route = "generate_b" THEN "route_loop" ELSE "voice"

\* params.maxSegments as the handler passes it on (0 stands for a falsy value)
ParamsMaxSegments(route, body) ==
  IF route \in {"plus_b", "continuation"} THEN 0 ELSE body.maxSegments

\* params.sequential as the handler passes it on
ParamsSequential(route, body) ==
  CASE route \in {"plus_b", "continuation"} -> "undefined"
    [] route = "plus_a" ->
         (IF body.sequential = "undefined" THEN "null" ELSE body.sequential)
    [] OTHER -> body.sequential

\* scriptSegments.length after the optional cap
PlannedLength(route, service, continuationMode, body, nChunks) ==
  LET flow == Flow(route, continuationMode)
  IN  IF flow = "route_loop"
        THEN CappedLength(nChunks, body.maxSegments)
      ELSE IF service = "older" THEN nChunks
      ELSE CappedLength(nChunks, ParamsMaxSegments(route, body))

\* whether the segments are generated one after the other
PlannedSequential(route, service, continuationMode, body, n) ==
  IF Flow(route, continuationMode) # "standard" \/ service = "older"
    THEN TRUE
    ELSE autoSequential(ParamsSequential(route, body), n)

\* Array.from({length: n}, (_, i) => src[i] ?? src[src.length - 1] ?? 'living room')
LocationsFrom(src, n) ==
  [i \in 1..n |-> IF i <= Len(src) THEN src[i]
                  ELSE IF Len(src) > 0 THEN src[Len(src)]
                  ELSE LivingRoom]

\* while (locations.length < n) locations.push(last || 'living room')
RECURSIVE LocationsPush(_, _)
LocationsPush(locations, n) ==
  IF Len(locations) < n
    THEN LocationsPush(
           Append(locations,
                  IF Len(locations) > 0 THEN locations[Len(locations)]
                  ELSE LivingRoom),
           n)
    ELSE locations

\* the locations array the pipeline indexes by segment
PlannedLocations(route, service, continuationMode, body, n) ==
  IF body.settingMode = "single" THEN [i \in 1..n |-> Room]
  ELSE IF service = "older" /\ Flow(route, continuationMode) # "route_loop"
         THEN LocationsPush(body.locations, n)
         ELSE LocationsFrom(body.locations, n)

\* the caller's locations array after the planning steps
CallerLocationsAfter(route, service, continuationMode, body, n) ==
  IF /\ body.settingMode # "single"
     /\ service = "older"
     /\ Flow(route, continuationMode) # "route_loop"
    THEN LocationsPush(body.locations, n)
    ELSE body.locations

\* the value the service returns for k generated segments
ServiceResult(k) ==
  [segments |-> k, totalSegments |-> k, estimatedDuration |-> k * 8]

\* what the handler puts in the response body
RouteOutput(route, body, result) ==
  IF route = "plus_b" /\ body.maxSegments # 0
    THEN LET m == Max(1, body.maxSegments)
         IN  [segments |-> Min(result.segments, m),
              totalSegments |->
                Min(IF result.totalSegments # 0 THEN result.totalSegments
                    ELSE result.segments, m),
              estimatedDuration |-> m * 8]
    ELSE result

\* the catch block of the handler
RouteStatus(route, e) ==
  IF route = "generate" THEN statusFromError(e)
  ELSE IF e.tail = "_timeout" THEN 504 ELSE 500

SyntaxError == Err("SyntaxError", 0, "")

\* the ways one upstream call can fail
ErrorKinds ==
  {"timeout", "repair_timeout", "json_repair_failed", "api", "syntax"}

\* the ways it can fail in a service: only the current one repairs JSON, the
\* older one lets JSON.parse throw
ErrorKindsOf(service) ==
  IF service = "current"
    THEN {"timeout", "repair_timeout", "json_repair_failed", "api"}
    ELSE {"timeout", "syntax", "api"}

\* the error thrown by the call with that label and index
CallError(kind, label, idx) ==
  CASE kind = "timeout" -> TimeoutError(label, idx)
    [] kind = "repair_timeout" -> TimeoutError("openai_json_repair", 0)
    [] kind = "json_repair_failed" -> JsonRepairFailed
    [] kind = "syntax" -> SyntaxError
    [] OTHER -> ApiError

\* the service returned k segments and the handler answers
RouteSucceeds(p, k) ==
  [p EXCEPT !.pc = "done",
            !.result = ServiceResult(k),
            !.status = 200,
            !.out = RouteOutput(p.route, p.body, ServiceResult(k))]

\* the service threw e and the handler answers
RouteFails(p, e) ==
  [p EXCEPT !.pc = "done", !.error = e, !.status = RouteStatus(p.route, e)]

\* the segment calls are started: the loop issues one, the pool its first
\* Math.min(limit, items.length)
RouteStartSegments(p) ==
  IF p.n = 0 THEN RouteSucceeds(p, 0)
  ELSE [p EXCEPT !.pc = "segments", !.issued = Min(p.n, p.concurrency)]

\* a request with a script of nChunks chunks reaches a handler; the handler
\* validates, builds params and the pipeline runs up to its first upstream
\* call
RouteRequest(route, service, continuationMode, valid, nChunks, body) ==
  /\ rt.pc = "idle"
  /\ route \in {"plus_a", "plus_b", "continuation"} => ~continuationMode
  /\ LET n    == PlannedLength(route, service, continuationMode, body, nChunks)
         seq  == PlannedSequential(route, service, continuationMode, body, n)
         p    == [rt EXCEPT !.route = route, !.service = service,
                            !.continuationMode = continuationMode,
                            !.body = body, !.nChunks = nChunks]
     IN  IF ~valid
           THEN rt' = [p EXCEPT !.pc = "done", !.status = 400]
           ELSE rt' = [p EXCEPT
                  !.pc = IF route = "continuation" THEN "route_base"
                                                   ELSE "base",
                  !.n = n,
                  !.seq = seq,
                  !.concurrency = effectiveConcurrency(seq),
                  !.locations = PlannedLocations(route, service,
                                  continuationMode, body, n),
                  !.callerLocations = CallerLocationsAfter(route, service,
                                        continuationMode, body, n),
                  !.baseCalls = 1]
  /\ UNCHANGED <<splitVars, pipeVars, cv, en, cx>>

\* the handler's own base-description call returns; the handler puts the
\* object in params and calls generateSegments, which generates base
\* descriptions again
RouteOwnBaseDone ==
  /\ rt.pc = "route_base"
  /\ rt' = [rt EXCEPT !.pc = "base", !.baseCalls = @ + 1]
  /\ UNCHANGED <<splitVars, pipeVars, cv, en, cx>>

\* which base-description object the segment calls receive, numbered by the
\* generation that produced it: the one just generated, unless params
\* carries a baseDescriptions of its own, which ...params spreads over it
SegmentBaseOf(p) == IF p.route = "continuation" THEN 1 ELSE p.baseCalls

\* the base-description call returns
RouteBaseDone ==
  /\ rt.pc = "base"
  /\ LET p == [rt EXCEPT !.segmentBase = SegmentBaseOf(rt)]
     IN  rt' = IF Flow(rt.route, rt.continuationMode) = "voice"
                 THEN [p EXCEPT !.pc = "first", !.issued = 1]
                 ELSE RouteStartSegments(p)
  /\ UNCHANGED <<splitVars, pipeVars, cv, en, cx>>

\* the first segment of the voice pipeline returns and the voice-profile
\* call is issued
RouteFirstDone ==
  /\ rt.pc = "first"
  /\ rt' = [rt EXCEPT !.pc = "voice", !.completed = 1, !.voiceCalls = 1]
  /\ UNCHANGED <<splitVars, pipeVars, cv, en, cx>>

\* the remaining segments of the voice pipeline
RouteAfterVoice(p) ==
  IF p.n > 1 THEN [p EXCEPT !.pc = "segments", !.issued = 2]
  ELSE RouteSucceeds(p, 1)

\* extractDetailedVoiceProfile returns a profile
RouteVoiceDone ==
  /\ rt.pc = "voice"
  /\ rt' = RouteAfterVoice(rt)
  /\ UNCHANGED <<splitVars, pipeVars, cv, en, cx>>

\* the voice-profile call fails: the current service substitutes its
\* default profile, the older one rethrows
RouteVoiceFails(kind) ==
  /\ rt.pc = "voice"
  /\ kind \in ErrorKindsOf(rt.service)
  /\ rt' = IF rt.service = "current" THEN RouteAfterVoice(rt)
           ELSE RouteFails(rt, CallError(kind, "openai_voice_profile", 0))
  /\ UNCHANGED <<splitVars, pipeVars, cv, en, cx>>

\* one segment call in flight returns; the loop or the pool issues the next
RouteSegmentDone ==
  /\ rt.pc = "segments"
  /\ rt.completed < rt.issued
  /\ LET target == IF Flow(rt.route, rt.continuationMode) = "voice"
                     THEN Max(1, rt.n) ELSE rt.n
         p == [rt EXCEPT !.completed = @ + 1,
                         !.issued = IF @ < target THEN @ + 1 ELSE @]
     IN  rt' = IF p.completed = target THEN RouteSucceeds(p, target) ELSE p
  /\ UNCHANGED <<splitVars, pipeVars, cv, en, cx>>

\* the label of the calls in flight at a position of the pipeline
RouteLabel(p) ==
  CASE p.pc \in {"route_base", "base"} -> "openai_base"
    [] p.pc = "segments" /\ Flow(p.route, p.continuationMode) # "standard"
         -> "openai_continuation_style"
    [] OTHER -> "openai_segment"

\* a base or segment call in flight fails and the error reaches the handler
RouteCallFails(i, kind) ==
  /\ rt.pc \in {"route_base", "base", "first", "segments"}
  /\ IF rt.pc \in {"route_base", "base"} THEN i = 0 ELSE i \in (rt.completed + 1)..rt.issued
  /\ kind \in ErrorKindsOf(rt.service)
  /\ rt' = RouteFails(rt, CallError(kind, RouteLabel(rt), i))
  /\ UNCHANGED <<splitVars, pipeVars, cv, en, cx>>

RouteInit ==
  /\ script = [sents |-> <<>>, frag |-> 0]
  /\ chunks = <<>>
  /\ splitDone = FALSE
  /\ PipeInit
  /\ rt = RouteIdle
  /\ cv = ContIdle
  /\ en = EnergyIdle
  /\ cx = ContextIdle

\* a request arrives with any body the routes accept
RouteArrives ==
  /\ rt.pc = "idle"
  /\ \E route \in Routes, service \in Services,
        continuationMode \in BOOLEAN, valid \in BOOLEAN,
        nChunks \in 1..MaxChunks, body \in Bodies :
       RouteRequest(route, service, continuationMode, valid, nChunks, body)

RouteNext ==
  \/ RouteArrives
  \/ RouteOwnBaseDone
  \/ RouteBaseDone
  \/ RouteFirstDone
  \/ RouteVoiceDone
  \/ \E kind \in ErrorKinds : RouteVoiceFails(kind)
  \/ RouteSegmentDone
  \/ \E i \in 0..MaxChunks, kind \in ErrorKinds : RouteCallFails(i, kind)

RouteSpec == RouteInit /\ [][RouteNext]_vars

\* the request passed validation and the pipeline was planned
RoutePlanned == rt.pc # "idle" /\ rt.status # 400

\* C12: when a request supplies maxSegments = k (a positive integer) and the
\* script splits into more than k chunks, the chunk list is cut to k before any
\* generation call, so exactly k segment-generation calls and one
\* base-description call reach the upstream model, on every route that accepts
\* maxSegments.
C12_CapBeforeGeneration ==
  (/\ RoutePlanned
   /\ rt.body.maxSegments > 0
   /\ rt.nChunks > rt.body.maxSegments) =>
    /\ rt.n = rt.body.maxSegments
    /\ rt.issued <= rt.body.maxSegments
    /\ rt.baseCalls = 1
    /\ rt.status = 200 => rt.issued = rt.body.maxSegments

\* C13: when the caller does not specify sequential, generateSegments runs
\* sequentially whenever the capped segment count is at least 8 and with
\* bounded concurrency 2 otherwise; an explicit boolean overrides the default.
C13_ModeSelectionDefault ==
  (RoutePlanned /\ ~rt.continuationMode) =>
    /\ rt.seq = (IF rt.body.sequential = "undefined"
                   THEN rt.n >= sequentialThreshold
                   ELSE rt.body.sequential = "true")
    /\ rt.concurrency = (IF rt.seq THEN 1 ELSE SEGMENT_CONCURRENCY)

\* C14: for every successful run (any settingMode, locations list and
\* maxSegments), the location sequence, the chunks after the cap and the
\* returned segments have the same length, and metadata.totalSegments equals
\* segments.length.
C14_LengthInvariant ==
  (rt.pc = "done" /\ rt.status = 200) =>
    /\ Len(rt.locations) = rt.n
    /\ rt.n = rt.result.segments
    /\ rt.result.totalSegments = rt.result.segments

\* C15: in single mode every segment's location is params.room; in a
\* multi-location mode segment i gets locations[i] when the caller supplied
\* one and the last supplied location otherwise; the mapping is in place
\* before any generation call and the caller's list is not modified.
C15_LocationMapping ==
  RoutePlanned =>
    /\ rt.body.settingMode = "single" =>
         \A i \in 1..rt.n : rt.locations[i] = Room
    /\ (rt.body.settingMode # "single" /\ Len(rt.body.locations) > 0) =>
         \A i \in 1..rt.n :
           rt.locations[i] =
             (IF i <= Len(rt.body.locations) THEN rt.body.locations[i]
              ELSE rt.body.locations[Len(rt.body.locations)])
    /\ rt.callerLocations = rt.body.locations

\* C16: on every generation route an error surfaced by the pipeline is
\* answered with 504 when its message ends in _timeout, with 502 when it is
\* json_repair_failed, and with 500 otherwise.
C16_ErrorToStatus ==
  (rt.pc = "done" /\ rt.error # NoError) =>
    rt.status = (IF rt.error.tail = "_timeout" THEN 504
                 ELSE IF rt.error = JsonRepairFailed THEN 502
                 ELSE 500)

\* ------------------------------------------------------------------------
\* The continuity-mode pipeline (generateSegmentsWithVoiceProfile) and the
\* single continuation call (generateContinuationSegment), with every
\* withTimeout race and every timer.  cv.calls lists the service calls in the
\* order they were made; a call stays in the list after the pipeline stopped
\* waiting for it, so its upstream call and its timers can still fire.
\* ------------------------------------------------------------------------
MaxContSegs == 2

\* a promise that has not settled
Pending == [ok |-> FALSE, value |-> Null, err |-> Err("pending", 0, "")]

DefaultProfile == <<"default">>

\* Promise.race([promise, timer]) that lets the last settlement win
withTimeoutLastWins(settled, outcome) == outcome

\* Promise.race([promise, timer]): the first settlement wins, a later one
\* changes nothing
withTimeout(settled, outcome) ==
  IF settled = Pending THEN outcome ELSE settled

\* the label of the withTimeout around chat.completions.create
InnerLabel(service, kind) ==
  CASE kind = "base" -> "openai_base"
    [] kind = "segment" -> "openai_segment"
    [] kind = "contstyle" -> "openai_continuation_style"
    [] kind = "voice" -> "openai_voice_profile"
    [] OTHER -> IF service = "current" THEN "openai_continuation_minimal"
                ELSE "openai_continuation"

InnerIdx(kind, idx) == IF kind \in {"segment", "contstyle"} THEN idx ELSE 0

\* the calls the pipeline wraps in a withTimeout of its own
HasOuter(kind) == kind \in {"base", "segment", "contstyle"}

OuterLabel(kind) ==
  CASE kind = "base" -> "openai_voice_base"
    [] kind = "segment" -> "openai_voice_first"
    [] OTHER -> "openai_voice_segment"

OuterIdx(kind, idx) == IF kind = "contstyle" THEN idx ELSE 0

\* the calls that read their template before the upstream call
LoadsTemplate(kind) == kind \in {"contstyle", "minimal"}

\* a service call as it stands when the service method returns its promise
NewCall(kind, idx) ==
  [kind |-> kind, idx |-> idx,
   tpl |-> IF LoadsTemplate(kind) THEN "loading" ELSE "none",
   create |-> IF LoadsTemplate(kind) THEN "none" ELSE "inflight",
   inner |-> Pending,
   innerTimer |-> IF LoadsTemplate(kind) THEN "unset" ELSE "armed",
   innerFirst |-> "none",
   repair |-> "none", repairRace |-> Pending, repairTimer |-> "unset",
   repairFirst |-> "none",
   threw |-> NoError,
   fn |-> Pending,
   outer |-> Pending,
   outerTimer |-> IF HasOuter(kind) THEN "armed" ELSE "unset",
   outerFirst |-> "none",
   prev |-> Null, profile |-> Null]

\* the loop as it would be if it passed no previous segment
voicePreviousSegmentNull(segments, idx) == Null

\* previousSegment: segments[i - 1] of the loop over the remaining
\* segments (idx = i + 1 is the segment number)
voicePreviousSegment(segments, idx) == segments[idx - 1]

\* the pipeline makes its next service call; a continuation-style call
\* gets the previous segment and the voice profile
ContCall(p, pc, kind, idx) ==
  LET call == NewCall(kind, idx)
  IN  [p EXCEPT
         !.pc = pc,
         !.calls = Append(@,
            IF kind = "contstyle"
              THEN [call EXCEPT
                      !.prev = voicePreviousSegment(p.segments, idx),
                      !.profile = p.voiceProfile]
              ELSE call)]

\* the loop over the remaining segments: the next continuation-style call,
\* or the return when every chunk has its segment
ContLoop(p) ==
  IF Len(p.segments) < p.n
    THEN ContCall(p, "segment", "contstyle", Len(p.segments) + 1)
    ELSE [p EXCEPT !.pc = "resolved"]

\* the promise the pipeline awaits settles
Advance(p, out) ==
  IF ~out.ok THEN [p EXCEPT !.pc = "rejected", !.error = out.err]
  ELSE CASE p.pc = "base" ->
              ContCall([p EXCEPT !.base = out.value], "first", "segment", 1)
         [] p.pc = "first" ->
              ContCall([p EXCEPT !.segments = <<out.value>>],
                       "voice", "voice", 0)
         [] p.pc = "voice" -> ContLoop([p EXCEPT !.voiceProfile = out.value])
         [] p.pc = "segment" ->
              ContLoop([p EXCEPT !.segments = Append(@, out.value)])
         [] OTHER ->
              [p EXCEPT !.pc = "resolved", !.segments = <<out.value>>]

\* the service method of call c settles with out: extractDetailedVoiceProfile
\* of the current service catches a failure and returns the default profile;
\* the withTimeout around the method, or the await itself, follows
FnSettle(p, c, out) ==
  LET rec    == p.calls[c]
      caught == rec.kind = "voice" /\ p.service = "current" /\ ~out.ok
      res1   == IF caught THEN Ok(DefaultProfile) ELSE out
      first  == IF rec.outerFirst = "none" THEN "fn" ELSE rec.outerFirst
      rec1   == [rec EXCEPT !.fn = res1,
                            !.threw = out.err,
                            !.outer = IF HasOuter(rec.kind)
                                        THEN withTimeout(@, res1) ELSE @,
                            !.outerFirst = IF HasOuter(rec.kind)
                                             THEN first ELSE @]
      p1     == [p EXCEPT !.calls[c] = rec1]
  IN  IF HasOuter(rec.kind) /\ rec.outer # Pending THEN p1
      ELSE Advance(p1, res1)

\* the method body after its upstream call settled with out (the reply text
\* when ok): parse it; the current service tries the repair call on a parse
\* failure, the older one lets JSON.parse throw
AfterCreate(p, c, out) ==
  IF ~out.ok THEN FnSettle(p, c, out)
  ELSE IF p.service = "older"
         THEN IF JsonParses(out.value)
                THEN FnSettle(p, c, Ok(JsonValue(out.value)))
                ELSE FnSettle(p, c, Fail(SyntaxError))
  ELSE LET parsed == safeParseJSON(out.value)
       IN  IF parsed.ok THEN FnSettle(p, c, Ok(parsed.value))
           ELSE [p EXCEPT !.calls[c].repair = "inflight",
                          !.calls[c].repairTimer = "armed"]

\* the withTimeout around the upstream call of call c gets a settlement
InnerSettle(p, c, by, out) ==
  LET rec == p.calls[c]
      p1  == [p EXCEPT !.calls[c].inner = withTimeout(@, out),
                       !.calls[c].innerFirst =
                          IF @ = "none" THEN by ELSE @]
  IN  IF rec.inner = Pending THEN AfterCreate(p1, c, out) ELSE p1

\* the withTimeout around the repair call of call c gets a settlement
RepairSettle(p, c, by, out) ==
  LET rec == p.calls[c]
      p1  == [p EXCEPT !.calls[c].repairRace = withTimeout(@, out),
                       !.calls[c].repairFirst =
                          IF @ = "none" THEN by ELSE @]
  IN  IF rec.repairRace = Pending
        THEN FnSettle(p1, c, IF out.ok THEN repairJSONWithModel(out.value)
                             ELSE out)
        ELSE p1

\* generateSegmentsWithVoiceProfile is called for a script that has n chunks
\* after the cap
ContStart(service, n) ==
  /\ cv.pc = "idle"
  /\ cv' = [ContIdle EXCEPT !.pc = "template", !.service = service,
                               !.n = n]
  /\ UNCHANGED <<splitVars, pipeVars, rt, en, cx>>

\* generateContinuationSegment is called by POST /generate-continuation
ContinuationStart(service) ==
  /\ cv.pc = "idle"
  /\ cv' = ContCall([ContIdle EXCEPT !.service = service, !.n = 1],
                    "minimal", "minimal", 0)
  /\ UNCHANGED <<splitVars, pipeVars, rt, en, cx>>

\* loadTemplate('enhanced') returns and the base-description call is made
ContTemplateLoaded ==
  /\ cv.pc = "template"
  /\ cv' = ContCall(cv, "base", "base", 0)
  /\ UNCHANGED <<splitVars, pipeVars, rt, en, cx>>

ContTemplateFails ==
  /\ cv.pc = "template"
  /\ cv' = [cv EXCEPT !.pc = "rejected", !.error = TemplateError]
  /\ UNCHANGED <<splitVars, pipeVars, rt, en, cx>>

\* the template of call c is read and its upstream call is issued
CvTemplateLoaded(c) ==
  /\ cv.calls[c].tpl = "loading"
  /\ cv' = [cv EXCEPT !.calls[c].tpl = "done",
                      !.calls[c].create = "inflight",
                      !.calls[c].innerTimer = "armed"]
  /\ UNCHANGED <<splitVars, pipeVars, rt, en, cx>>

CvTemplateFails(c) ==
  /\ cv.calls[c].tpl = "loading"
  /\ cv' = FnSettle([cv EXCEPT !.calls[c].tpl = "failed"], c,
                    Fail(TemplateError))
  /\ UNCHANGED <<splitVars, pipeVars, rt, en, cx>>

\* the upstream model answers the call of call c with the text r
CvReply(c, r) ==
  /\ cv.calls[c].create = "inflight"
  /\ cv' = InnerSettle([cv EXCEPT !.calls[c].create = "done"], c, "reply",
                       Ok(r))
  /\ UNCHANGED <<splitVars, pipeVars, rt, en, cx>>

\* the upstream call of call c fails
CvError(c) ==
  /\ cv.calls[c].create = "inflight"
  /\ cv' = InnerSettle([cv EXCEPT !.calls[c].create = "done"], c, "reply",
                       Fail(ApiError))
  /\ UNCHANGED <<splitVars, pipeVars, rt, en, cx>>

\* Timers are never cleared and all have the same delay, so they fire in the
\* order they were set; the pipeline is sequential, so every timer of an
\* earlier call was set before any timer of call c
EarlierTimersFired(c) ==
  \A d \in 1..(c - 1) :
    /\ cv.calls[d].innerTimer # "armed"
    /\ cv.calls[d].repairTimer # "armed"
    /\ cv.calls[d].outerTimer # "armed"

\* the timer of the withTimeout around the upstream call of call c fires;
\* for a continuation-style call the pipeline's own timer was set before
\* the template was read
CvTimer(c) ==
  /\ cv.calls[c].innerTimer = "armed"
  /\ EarlierTimersFired(c)
  /\ cv.calls[c].kind = "contstyle" => cv.calls[c].outerTimer = "fired"
  /\ LET rec == cv.calls[c]
     IN  cv' = InnerSettle(
                 [cv EXCEPT !.calls[c].innerTimer = "fired"], c, "timer",
                 Fail(TimeoutError(InnerLabel(cv.service, rec.kind),
                                   InnerIdx(rec.kind, rec.idx))))
  /\ UNCHANGED <<splitVars, pipeVars, rt, en, cx>>

\* the upstream model answers the repair call of call c with the text r
CvRepairReply(c, r) ==
  /\ cv.calls[c].repair = "inflight"
  /\ cv' = RepairSettle([cv EXCEPT !.calls[c].repair = "done"], c, "reply",
                        Ok(r))
  /\ UNCHANGED <<splitVars, pipeVars, rt, en, cx>>

\* the repair call of call c fails
CvRepairError(c) ==
  /\ cv.calls[c].repair = "inflight"
  /\ cv' = RepairSettle([cv EXCEPT !.calls[c].repair = "done"], c, "reply",
                        Fail(ApiError))
  /\ UNCHANGED <<splitVars, pipeVars, rt, en, cx>>

\* the timer of the withTimeout around the repair call of call c fires; it
\* was set after the other timers of the call
CvRepairTimer(c) ==
  /\ cv.calls[c].repairTimer = "armed"
  /\ EarlierTimersFired(c)
  /\ cv.calls[c].innerTimer = "fired"
  /\ HasOuter(cv.calls[c].kind) => cv.calls[c].outerTimer = "fired"
  /\ cv' = RepairSettle(
             [cv EXCEPT !.calls[c].repairTimer = "fired"], c, "timer",
             Fail(TimeoutError("openai_json_repair", 0)))
  /\ UNCHANGED <<splitVars, pipeVars, rt, en, cx>>

\* the timer of the pipeline's withTimeout around call c fires; for the base
\* and first-segment calls it was set right after the timer around the
\* upstream call
CvOuterTimer(c) ==
  /\ cv.calls[c].outerTimer = "armed"
  /\ EarlierTimersFired(c)
  /\ cv.calls[c].kind \in {"base", "segment"} =>
       cv.calls[c].innerTimer = "fired"
  /\ LET rec == cv.calls[c]
         out == Fail(TimeoutError(OuterLabel(rec.kind),
                                  OuterIdx(rec.kind, rec.idx)))
         p1  == [cv EXCEPT !.calls[c].outerTimer = "fired",
                           !.calls[c].outer = withTimeout(@, out),
                           !.calls[c].outerFirst =
                              IF @ = "none" THEN "timer" ELSE @]
     IN  cv' = IF rec.outer = Pending THEN Advance(p1, out) ELSE p1
  /\ UNCHANGED <<splitVars, pipeVars, rt, en, cx>>

ContInit ==
  /\ script = [sents |-> <<>>, frag |-> 0]
  /\ chunks = <<>>
  /\ splitDone = FALSE
  /\ PipeInit
  /\ rt = RouteIdle
  /\ cv = ContIdle
  /\ en = EnergyIdle
  /\ cx = ContextIdle

ContNext ==
  \/ \E service \in Services, n \in 0..MaxContSegs : ContStart(service, n)
  \/ \E service \in Services : ContinuationStart(service)
  \/ ContTemplateLoaded
  \/ ContTemplateFails
  \/ \E c \in 1..Len(cv.calls) : CvTemplateLoaded(c)
  \/ \E c \in 1..Len(cv.calls) : CvTemplateFails(c)
  \/ \E c \in 1..Len(cv.calls), r \in Replies : CvReply(c, r)
  \/ \E c \in 1..Len(cv.calls) : CvError(c)
  \/ \E c \in 1..Len(cv.calls) : CvTimer(c)
  \/ \E c \in 1..Len(cv.calls), r \in Replies : CvRepairReply(c, r)
  \/ \E c \in 1..Len(cv.calls) : CvRepairError(c)
  \/ \E c \in 1..Len(cv.calls) : CvRepairTimer(c)
  \/ \E c \in 1..Len(cv.calls) : CvOuterTimer(c)

ContSpec == ContInit /\ [][ContNext]_vars

\* the promise the pipeline awaits for a call
AwaitedOf(rec) == IF HasOuter(rec.kind) THEN rec.outer ELSE rec.fn

Failed(promise) == promise # Pending /\ ~promise.ok

\* C17: every upstream model call (base description, segment,
\* continuation-style, continuation-minimal, voice profile, JSON repair) is
\* raced against a timer; if the timer fires before the call returns, the call
\* fails with '<label>_timeout', and a later completion of the underlying call
\* has no effect on the outcome.
C17_PerCallTimeout ==
  \A c \in 1..Len(cv.calls) :
    LET rec == cv.calls[c]
        innerTimeout == TimeoutError(InnerLabel(cv.service, rec.kind),
                                     InnerIdx(rec.kind, rec.idx))
    IN  /\ rec.create # "none" => rec.innerTimer # "unset"
        /\ rec.repair # "none" => rec.repairTimer # "unset"
        /\ rec.innerFirst = "timer" =>
             /\ rec.inner = Fail(innerTimeout)
             /\ rec.threw = innerTimeout
        /\ rec.repairFirst = "timer" =>
             /\ rec.repairRace = Fail(TimeoutError("openai_json_repair", 0))
             /\ rec.threw = TimeoutError("openai_json_repair", 0)
        /\ rec.outerFirst = "timer" =>
             rec.outer = Fail(TimeoutError(OuterLabel(rec.kind),
                                           OuterIdx(rec.kind, rec.idx)))
        /\ Failed(AwaitedOf(rec)) =>
             /\ cv.pc = "rejected"
             /\ cv.error = AwaitedOf(rec).err

\* the timer of the first segment's upstream call fired first, the run was
\* rejected with openai_segment_1_timeout, and the upstream call then
\* returned
C17_Witness ==
  /\ cv.pc = "rejected"
  /\ cv.error = TimeoutError("openai_segment", 1)
  /\ Len(cv.calls) = 2
  /\ cv.calls[2].innerFirst = "timer"
  /\ cv.calls[2].create = "done"

\* C18: in the continuity-mode pipeline any failure of the voice-profile
\* extraction (timeout, upstream error, unrepairable JSON) is caught and
\* replaced by the default profile, so the run goes on to the remaining
\* segments and returns that default as voiceProfile; it is the only step
\* whose failure does not fail the run.
C18_VoiceProfileFallback ==
  \A c \in 1..Len(cv.calls) :
    LET rec == cv.calls[c]
    IN  IF rec.kind = "voice"
          THEN rec.threw # NoError =>
                 /\ rec.fn = Ok(DefaultProfile)
                 /\ cv.voiceProfile = DefaultProfile
                 /\ cv.pc = "rejected" => Len(cv.calls) > c
          ELSE Failed(AwaitedOf(rec)) => cv.pc = "rejected"

\* ------------------------------------------------------------------------
\* Properties of the worker pool of the request pipeline (Spec)
\* ------------------------------------------------------------------------
\* the segments whose makeSegment promise is pending
InFlight == {i \in 1..MaxSegs : calls[i].out = "pending"}

\* the segments with an upstream or repair call in flight
Executing == {i \in 1..MaxSegs : calls[i].phase \in {"upstream", "repair"}}

\* C19: in every reachable state of a concurrent-mode run at most 2
\* segment-generation workers are in flight, and in sequential mode at most 1.
C19_ConcurrencyBound ==
  LET limit == IF run.seq THEN 1 ELSE 2
  IN  /\ Cardinality(InFlight) <= limit
      /\ Cardinality(Executing) <= limit

\* a concurrent run of three segments with two workers in flight and the
\* third segment waiting for a free worker
C19_Witness ==
  /\ ~run.seq
  /\ run.n >= 3
  /\ Cardinality(InFlight) = 2
  /\ calls[3].phase = "idle"

Rejected == {i \in 1..MaxSegs : calls[i].out = "rejected"}

\* C20: if a segment call fails in concurrent mode the whole batch rejects
\* with that error and no segments are returned, while the sibling calls in
\* flight are not cancelled and run on.
C20_AllOrNothing ==
  [][(~run.seq /\ Rejected' # {}) =>
       /\ map'.state = "rejected"
       /\ run'.pc = "rejected"
       /\ run'.segments = <<>>
       /\ res'.body # "segments"
       /\ run'.error \in {calls'[i].outErr : i \in Rejected'}
       /\ Rejected = {} =>
            \A i \in Rejected' :
              /\ run'.error = calls'[i].outErr
              /\ \A j \in Executing \ {i} : calls'[j] = calls[j]]_vars

\* of two segments the first failed, the batch was rejected and answered
\* with the error, and the second, in flight at that moment, returned
\* afterwards
C20_Witness ==
  /\ ~run.seq
  /\ run.n = 2
  /\ calls[1].out = "rejected"
  /\ map.state = "rejected"
  /\ res.body = "error"
  /\ hist.late
  /\ calls[2].out = "resolved"

\* ------------------------------------------------------------------------
\* Further properties of splitScript (SplitSpec)
\* ------------------------------------------------------------------------
\* C28: for every input script the list splitScript returns equals the raw
\* segments of the sentence-grouping pass: every raw segment except the last
\* already has at least 15 words, so the rebalancing pass changes nothing.
C28_RebalanceNoOp ==
  splitDone =>
    LET raw == rawSegmentsOf(script)
    IN  /\ chunks = raw
        /\ \A k \in 1..(Len(raw) - 1) : WordCount(raw[k]) >= 15

\* a split whose last raw segment is short and follows a full one: the
\* rebalancing pass saw it and left it alone
C28_Witness ==
  /\ splitDone
  /\ Len(rawSegmentsOf(script)) = 2
  /\ WordCount(rawSegmentsOf(script)[2]) < 15
  /\ Len(chunks) = 2

\* ------------------------------------------------------------------------
\* getEnergyLevel.  progress = segmentNumber / totalSegments is kept as the
\* pair of its integers: progress < a/b is b * segmentNumber < a *
\* totalSegments, and a zero totalSegments makes progress Infinity, which is
\* below no threshold.
\* ------------------------------------------------------------------------
MaxTotalSegments == 10

\* the energyArc values: the four arcs of the form, another string and a
\* missing field
EnergyArcs ==
  {"building", "problem-solution", "discovery", "consistent", "other",
   "undefined"}

\* progress < num / den
ProgressBelow(segmentNumber, totalSegments, num, den) ==
  totalSegments # 0 /\ den * segmentNumber < num * totalSegments

\* Math.round(60 + 35 * progress): floor(x + 0.5)
RoundedBuilding(segmentNumber, totalSegments) ==
  (121 * totalSegments + 70 * segmentNumber) \div (2 * totalSegments)

Level(pct, stage) == [finite |-> TRUE, pct |-> pct, stage |-> stage]

\* getEnergyLevel with Math.floor in place of Math.round
getEnergyLevelFloor(energyArc, segmentNumber, totalSegments) ==
  CASE energyArc = "building" ->
         IF totalSegments = 0
           THEN [finite |-> FALSE, pct |-> 0, stage |-> "Building"]
           ELSE Level((60 * totalSegments + 35 * segmentNumber)
                        \div totalSegments, "Building")
    [] energyArc = "problem-solution" ->
         IF ProgressBelow(segmentNumber, totalSegments, 3, 10)
           THEN Level(70, "Concerned")
         ELSE IF ProgressBelow(segmentNumber, totalSegments, 7, 10)
           THEN Level(60, "Working")
         ELSE Level(90, "Excited")
    [] energyArc = "discovery" ->
         IF ProgressBelow(segmentNumber, totalSegments, 1, 2)
           THEN Level(75, "Curious")
           ELSE Level(85, "Convinced")
    [] OTHER -> Level(80, "Steady")

getEnergyLevel(energyArc, segmentNumber, totalSegments) ==
  CASE energyArc = "building" ->
         IF totalSegments = 0
           THEN [finite |-> FALSE, pct |-> 0, stage |-> "Building"]
           ELSE Level(RoundedBuilding(segmentNumber, totalSegments),
                      "Building")
    [] energyArc = "problem-solution" ->
         IF ProgressBelow(segmentNumber, totalSegments, 3, 10)
           THEN Level(70, "Concerned")
         ELSE IF ProgressBelow(segmentNumber, totalSegments, 7, 10)
           THEN Level(60, "Working")
         ELSE Level(90, "Excited")
    [] energyArc = "discovery" ->
         IF ProgressBelow(segmentNumber, totalSegments, 1, 2)
           THEN Level(75, "Curious")
           ELSE Level(85, "Convinced")
    [] OTHER -> Level(80, "Steady")

\* the arguments generateSegment passes: segment i of n, and segment 1 of an
\* empty chunk list in the voice pipeline
EnergyInputs ==
  {[arc |-> a, segmentNumber |-> i, totalSegments |-> n, done |-> FALSE,
    level |-> EnergyIdle.level] :
     a \in EnergyArcs, n \in 0..MaxTotalSegments, i \in 1..MaxTotalSegments}

EnergyInit ==
  /\ script = [sents |-> <<>>, frag |-> 0]
  /\ chunks = <<>>
  /\ splitDone = FALSE
  /\ PipeInit
  /\ rt = RouteIdle
  /\ cv = ContIdle
  /\ en \in {e \in EnergyInputs :
               e.segmentNumber <= e.totalSegments
               \/ (e.totalSegments = 0 /\ e.segmentNumber = 1)}
  /\ cx = ContextIdle

\* generateSegment builds its prompt
EnergyLevel ==
  /\ ~en.done
  /\ en' = [en EXCEPT !.done = TRUE,
                      !.level = getEnergyLevel(en.arc, en.segmentNumber,
                                               en.totalSegments)]
  /\ UNCHANGED <<splitVars, pipeVars, rt, cv, cx>>

EnergyNext == EnergyLevel

EnergySpec == EnergyInit /\ [][EnergyNext]_vars

\* C25: with progress = segmentNumber / totalSegments, getEnergyLevel returns
\* for building the rounded linear interpolation from 60% at progress 0 to
\* 95% at progress 1; for problem-solution the concerned stage when progress
\* < 0.3, the working stage when progress < 0.7 and the excited stage
\* otherwise; for discovery curious when progress < 0.5 and convinced
\* otherwise; and a flat 80% for consistent and any unknown or missing arc.
C25_EnergyArc ==
  (en.done /\ en.totalSegments > 0) =>
    LET i == en.segmentNumber
        n == en.totalSegments
        l == en.level
    IN  CASE en.arc = "building" ->
               /\ l.finite
               /\ 2 * n * l.pct - 2 * (60 * n + 35 * i) <= n
               /\ 2 * n * l.pct - 2 * (60 * n + 35 * i) > -n
               /\ l.pct >= 60 /\ l.pct <= 95
               /\ i = n => l.pct = 95
          [] en.arc = "problem-solution" ->
               l.stage = (IF 10 * i < 3 * n THEN "Concerned"
                          ELSE IF 10 * i < 7 * n THEN "Working"
                          ELSE "Excited")
          [] en.arc = "discovery" ->
               l.stage = (IF 2 * i < n THEN "Curious" ELSE "Convinced")
          [] OTHER -> l.pct = 80 /\ l.stage = "Steady"

\* segment 3 of 10 of a problem-solution arc, exactly at progress 0.3
C25_Witness ==
  /\ en.done
  /\ en.arc = "problem-solution"
  /\ en.segmentNumber = 3
  /\ en.totalSegments = 10
  /\ en.level.stage = "Working"

\* ------------------------------------------------------------------------
\* POST /generate: the body fields the route forwards, and the context object
\* each segment call receives.  Two requests are handled side by side so that
\* their contexts can be compared.  A body is a function from the keys it
\* carries to their values; every value is a string.
\* ------------------------------------------------------------------------

\* body keys the route destructures and copies into params (those that reach
\* a context field or choose the pipeline)
ForwardedKeys == {"script", "jsonFormat"}

\* body keys the route reads without forwarding them
RouteOnlyKeys == {"continuationMode"}

\* body keys the route never reads
ForeignKeys ==
  {"previousSegment", "baseDescriptions", "template", "segmentNumber",
   "scriptPart", "currentLocation", "voiceProfile"}

\* the fields makeSegment and the continuity loop compute for a segment call
ContextFields ==
  {"segmentNumber", "totalSegments", "scriptPart", "baseDescriptions",
   "previousSegment", "template", "currentLocation", "previousLocation",
   "nextLocation"}

Undefined == "undefined"

Get(obj, k) == IF k \in DOMAIN obj THEN obj[k] ELSE Undefined

\* { ...a, ...b }
Spread(a, b) ==
  [k \in DOMAIN a \cup DOMAIN b |-> IF k \in DOMAIN b THEN b[k] ELSE a[k]]

\* the chunks splitScript returns for the two scripts of the comparison
ScriptParts(s) == IF s = "s1" THEN <<"s1 part 1", "s1 part 2">>
                              ELSE <<"s2 part 1">>

RequestBodies ==
  {Spread([script |-> s, continuationMode |-> m],
          [k \in extra |-> "injected"]) :
     s \in {"s1", "s2"}, m \in {"false", "true"}, extra \in SUBSET ForeignKeys}

\* the route spreading the whole body into params
paramsOfWholeBody(body) == body

\* const { script, ..., jsonFormat = 'standard', ... } = req.body;
\* const params = { script: script.trim(), ..., jsonFormat, ... }
paramsOf(body) ==
  [k \in ForwardedKeys |->
     IF k = "jsonFormat" /\ k \notin DOMAIN body THEN "standard"
     ELSE Get(body, k)]

\* the result of segment i, as the next call receives it
SegmentResult(i) == IF i = 0 THEN "null" ELSE "segment " \o ToString(i)

\* the object generateSegment receives for chunk i in generateSegments
\* (sequential mode), with one location for the whole run
makeSegmentContext(params, parts, i) ==
  Spread([segmentNumber |-> ToString(i),
          totalSegments |-> ToString(Len(parts)),
          scriptPart |-> parts[i],
          baseDescriptions |-> "base descriptions",
          previousSegment |-> SegmentResult(i - 1),
          template |-> "template",
          currentLocation |-> "living room",
          previousLocation |-> IF i > 1 THEN "living room" ELSE "null",
          nextLocation |-> IF i < Len(parts) THEN "living room" ELSE "null"],
         params)

\* the object the continuity pipeline passes for chunk i: generateSegment
\* for the first, generateContinuationStyleSegment for the others
voiceSegmentContext(params, parts, i) ==
  IF i = 1
    THEN Spread(makeSegmentContext(params, parts, 1),
                [jsonFormat |-> "enhanced"])
    ELSE Spread([segmentNumber |-> ToString(i),
                 totalSegments |-> ToString(Len(parts)),
                 scriptPart |-> parts[i],
                 baseDescriptions |-> "base descriptions",
                 previousSegment |-> SegmentResult(i - 1),
                 voiceProfile |-> "voice profile",
                 currentLocation |-> "living room",
                 previousLocation |-> "living room",
                 nextLocation |-> IF i < Len(parts) THEN "living room"
                                                    ELSE "null"],
                params)

\* the contexts of all segment calls of the run a body starts
SegmentContexts(body) ==
  LET params == paramsOf(body)
      parts  == ScriptParts(params.script)
  IN  [i \in 1..Len(parts) |->
         IF Get(body, "continuationMode") = "true"
           THEN voiceSegmentContext(params, parts, i)
           ELSE makeSegmentContext(params, parts, i)]

ContextInit ==
  /\ script = [sents |-> <<>>, frag |-> 0]
  /\ chunks = <<>>
  /\ splitDone = FALSE
  /\ PipeInit
  /\ rt = RouteIdle
  /\ cv = ContIdle
  /\ en = EnergyIdle
  /\ cx \in {[pc |-> "received", bodyA |-> a, bodyB |-> b,
              contextsA |-> <<>>, contextsB |-> <<>>] :
               a \in RequestBodies, b \in RequestBodies}

\* both requests run their pipelines to the last segment call
ContextGenerate ==
  /\ cx.pc = "received"
  /\ cx' = [cx EXCEPT !.pc = "done",
                      !.contextsA = SegmentContexts(cx.bodyA),
                      !.contextsB = SegmentContexts(cx.bodyB)]
  /\ UNCHANGED <<splitVars, pipeVars, rt, cv, en>>

ContextNext == ContextGenerate

ContextSpec == ContextInit /\ [][ContextNext]_vars

\* the two bodies agree on every key the route reads
SameReadKeys ==
  \A k \in ForwardedKeys \cup RouteOnlyKeys :
    Get(cx.bodyA, k) = Get(cx.bodyB, k)

\* C30: two POST /generate requests whose bodies differ only in keys outside
\* the route's whitelist produce identical per-segment contexts for the
\* segmentNumber, totalSegments, scriptPart, baseDescriptions,
\* previousSegment, template and location fields (and the voice profile of
\* the continuity pipeline): no body field overrides the computed context.
C30_BodyCannotOverrideContext ==
  (cx.pc = "done" /\ SameReadKeys) =>
    /\ Len(cx.contextsA) = Len(cx.contextsB)
    /\ \A i \in 1..Len(cx.contextsA) :
         \A f \in ContextFields \cup {"voiceProfile"} :
           Get(cx.contextsA[i], f) = Get(cx.contextsB[i], f)

\* one body carries previousSegment, segmentNumber and voiceProfile, the
\* other carries none of the foreign keys, and both ran the continuity
\* pipeline over the two-chunk script
C30_Witness ==
  /\ cx.pc = "done"
  /\ SameReadKeys
  /\ {"previousSegment", "segmentNumber", "voiceProfile"} \subseteq
       DOMAIN cx.bodyA
  /\ DOMAIN cx.bodyB \cap ForeignKeys = {}
  /\ Get(cx.bodyA, "continuationMode") = "true"
  /\ Len(cx.contextsA) = 2
  /\ cx.contextsA[2].previousSegment = "segment 1"

\* ------------------------------------------------------------------------
\* Response metadata of the generation routes
\* ------------------------------------------------------------------------

\* C23: in every success response of every generation route,
\* metadata.estimatedDuration equals 8 times the number of segments the
\* response returns.
C23_EstimatedDuration ==
  (rt.pc = "done" /\ rt.status = 200) =>
    rt.out.estimatedDuration = 8 * rt.out.segments

\* C21: for every request, on every route, exactly one base-description
\* generation is performed, it has completed when the first segment call
\* starts, and every segment call of the run receives the object it produced.
C21_BaseDescriptionsOnce ==
  (RoutePlanned /\ rt.issued > 0) =>
    /\ rt.baseCalls = 1
    /\ rt.pc \notin {"route_base", "base"}
    /\ rt.segmentBase = rt.baseCalls

\* ------------------------------------------------------------------------
\* The /api guard under fair scheduling.  The event loop fires an armed
\* timer and delivers the finish event of a written response; nothing
\* obliges the upstream model to answer, so the pipeline steps get no
\* fairness.  The scripts are short ones.
\* ------------------------------------------------------------------------
MaxDeadlineChunks == 1

DeadlineNext ==
  \/ \E valid \in BOOLEAN, nChunks \in 1..MaxDeadlineChunks,
        maxSegments \in MaxSegmentsChoices, sequential \in SequentialChoices :
       Request(valid, nChunks, maxSegments, sequential)
  \/ TemplateLoaded
  \/ TemplateFails
  \/ \E i \in 0..MaxDeadlineChunks, r \in Replies : UpstreamReply(i, r)
  \/ \E i \in 0..MaxDeadlineChunks : UpstreamError(i)
  \/ \E i \in 0..MaxDeadlineChunks : UpstreamTimeout(i)
  \/ \E i \in 0..MaxDeadlineChunks, r \in Replies : RepairReply(i, r)
  \/ \E i \in 0..MaxDeadlineChunks : RepairError(i)
  \/ \E i \in 0..MaxDeadlineChunks : RepairTimeout(i)
  \/ \E i \in 0..MaxDeadlineChunks : OuterTimeout(i)
  \/ RouteTimeout
  \/ ResFinish

DeadlineSpec ==
  /\ Init
  /\ [][DeadlineNext]_vars
  /\ WF_vars(RouteTimeout)
  /\ WF_vars(ResFinish)

C26_DispatchAfterFailure ==
  [][(~run'.seq) =>
       /\ map'.active = Cardinality(InFlight') + Cardinality(Rejected')
       /\ Rejected' # {} =>
            /\ map'.state = "rejected"
            /\ Cardinality(InFlight') <= SEGMENT_CONCURRENCY - 1
       /\ \A i \in 1..MaxSegs :
            (calls[i].out = "pending" /\ calls'[i].out = "rejected") =>
              /\ map'.active = map.active
              /\ map'.index = map.index
       /\ \A j \in 1..MaxSegs :
            (/\ map.state = "rejected"
             /\ calls[j].out = "pending"
             /\ calls'[j].out = "resolved"
             /\ map.index < run.n) =>
              /\ map'.index = map.index + 1
              /\ calls'[map.index + 1].phase = "upstream"
              /\ calls'[map.index + 1].out = "pending"]_vars

\* the first of three segments failed, the second returned afterwards and
\* the third is at the upstream model although the batch has been rejected
C26_Witness ==
  /\ ~run.seq
  /\ run.n = 3
  /\ map.state = "rejected"
  /\ calls[1].out = "rejected"
  /\ calls[2].out = "resolved"
  /\ calls[3].phase = "upstream"
  /\ map.active = 2
  /\ hist.late

\* the deadline has answered the request
DeadlineAnswered == timer = "fired" /\ res.body = "route_timeout"

\* C27: the route-deadline timer that writes 504 route_timeout cancels
\* nothing: the step leaves the run, the pool and every call as they were;
\* afterwards the sequential loop still issues the call for segment i + 1
\* when segment i returns, and when the run finally resolves or rejects the
\* response is left as the deadline wrote it.
C27_NoCancellation ==
  [][/\ (timer = "armed" /\ timer' = "fired") =>
          run' = run /\ map' = map /\ calls' = calls
     /\ DeadlineAnswered =>
          /\ res' = res
          /\ \A i \in 1..(MaxSegs - 1) :
               (/\ run.seq
                /\ i < run.n
                /\ calls[i].out = "pending"
                /\ calls'[i].out = "resolved") =>
                 /\ calls'[i + 1].phase = "upstream"
                 /\ calls'[i + 1].attempts = 1
                 /\ calls'[i + 1].prev = calls'[i].value
          /\ \A i \in 1..MaxSegs :
               (/\ ~run.seq
                /\ map.index < run.n
                /\ calls[i].out = "pending"
                /\ calls'[i].out = "resolved") =>
                 calls'[map.index + 1].phase = "upstream"]_vars

\* the deadline answered a sequential run of three segments; the run went
\* on through all three calls and resolved, and the response still is the
\* deadline's
C27_Witness ==
  /\ DeadlineAnswered
  /\ run.seq
  /\ run.n = 3
  /\ run.pc = "resolved"
  /\ Len(run.segments) = 3
  /\ res.status = 504
  /\ res.segments = <<>>

\* ------------------------------------------------------------------------
\* The worker pool under fair scheduling.  Every upstream call and every
\* repair call is raced against a timer which the event loop fires unless
\* the call settles first, and the template read eventually returns.  The
\* route deadline plays no part in the pool and is left out.
\* ------------------------------------------------------------------------
\* some event settles the upstream or repair call of call i
CallSettles(i) ==
  \/ \E r \in Replies : UpstreamReply(i, r)
  \/ UpstreamError(i)
  \/ UpstreamTimeout(i)
  \/ \E r \in Replies : RepairReply(i, r)
  \/ RepairError(i)
  \/ RepairTimeout(i)
  \/ OuterTimeout(i)

PoolNext ==
  \/ \E valid \in BOOLEAN, nChunks \in 1..MaxSegs,
        maxSegments \in MaxSegmentsChoices, sequential \in SequentialChoices :
       Request(valid, nChunks, maxSegments, sequential)
  \/ TemplateLoaded
  \/ TemplateFails
  \/ \E i \in 0..MaxSegs : CallSettles(i)

PoolSpec ==
  /\ Init
  /\ [][PoolNext]_vars
  /\ WF_vars(TemplateLoaded \/ TemplateFails)
  /\ \A i \in 0..MaxSegs :
       WF_vars(UpstreamTimeout(i)) /\ WF_vars(RepairTimeout(i))

\* mapWithConcurrency has been called and has not settled
PoolPending == ~run.seq /\ map.state = "pending"

\* C29: if every worker eventually succeeds the promise of
\* mapWithConcurrency eventually resolves; it resolves only when every item
\* has been dispatched, no worker is left and every result slot has been
\* written, each once; for an empty list it resolves in the call itself with
\* an empty array; and once resolved or rejected it stays so, never both.
C29_PoolSettles ==
  /\ PoolPending ~> (map.state = "resolved" \/ Rejected # {})
  /\ [](map.state = "resolved" =>
          /\ map.index = run.n
          /\ map.active = 0
          /\ InFlight = {} /\ Rejected = {}
          /\ \A i \in 1..run.n : hist.slotWrites[i] = 1
          /\ Len(run.segments) = run.n)
  /\ [][/\ map.state \in {"resolved", "rejected"} => map'.state = map.state
        /\ (run.pc = "base" /\ run'.pc \notin {"base", "rejected"}
            /\ ~run'.seq /\ run'.n = 0) =>
             (map'.state = "resolved" /\ run'.segments = <<>>)]_vars

\* three workers, the second finishing last, and the promise resolved with
\* the three results
C29_Witness ==
  /\ ~run.seq
  /\ run.n = 3
  /\ map.state = "resolved"
  /\ hist.completed = <<1, 3, 2>>
  /\ map.active = 0
  /\ Len(run.segments) = 3

\* the empty list resolved in the call itself
C29_WitnessEmpty ==
  /\ ~run.seq
  /\ run.n = 0
  /\ map.state = "resolved"
  /\ run.segments = <<>>

\* ------------------------------------------------------------------------
\* Order of the calls of the continuity-mode pipeline (ContSpec)
\* ------------------------------------------------------------------------
\* the calls a run over n chunks makes when none fails
ExpectedCalls(n) ==
  <<[kind |-> "base", idx |-> 0], [kind |-> "segment", idx |-> 1],
    [kind |-> "voice", idx |-> 0]>>
  \o [i \in 1..(n - 1) |-> [kind |-> "contstyle", idx |-> i + 1]]

\* generateSegmentsWithVoiceProfile is running or has finished
VoiceRun ==
  /\ cv.pc \notin {"idle", "minimal"}
  /\ Len(cv.calls) > 0 => cv.calls[1].kind # "minimal"

====
